---- MODULE Spec2Model ----
(***************************************************************************)
(* A model of xpld (src/xpld.go): the inspect pipeline of the rich variant *)
(* (fs.WalkDir callback with its filters, sortFiles, the renderer switch), *)
(* the version comparator and formatBytes.                                 *)
(*                                                                         *)
(* A string is a sequence of one-character strings; Ord gives the byte Go  *)
(* compares.  A fileEntry is [name, info]; info carries what fs.FileInfo   *)
(* exposes.  An optional platform timestamp (Sys() exposing Ctime()/       *)
(* Atime()) is a sequence: <<>> when the accessor is absent, <<t>> when it *)
(* is present.                                                             *)
(***************************************************************************)
EXTENDS Integers, Sequences, FiniteSets, TLC

VARIABLES
  c,           \* the parsed flags (cli.Command) of the running command
  pc,          \* position of the running command
  files,       \* inspectArchive: var files []fileEntry
  enumerated,  \* history: files as enumerated, before sortFiles ran on it
  archive,     \* the members of the opened archive (the virtual file system)
  pending,     \* fs.WalkDir: paths still to be handed to the callback, in order
  visited,     \* history: paths the callback has been called with
  renderer,    \* which output function inspectArchive called ("" before it)
  out,         \* what was written to standard output
  err,         \* the error the command returned ("" for nil)
  v1, v2,      \* compareVersions: the two tokens handed to the comparator
  lt, gt,      \* compareVersions(v1, v2) and compareVersions(v2, v1)
  nbytes,      \* formatBytes: its argument i, as base-1024 digits, lowest first
  text,        \* formatBytes: the string it returned
  dst,         \* extractToDirectory: the output directory
  created      \* history: the MkdirAll and Create calls of the extract handler

inspectVars == <<archive, pending, visited, renderer, out, err>>

verVars == <<v1, v2, lt, gt>>

fmtVars == <<nbytes, text>>

extVars == <<dst, created>>

vars == <<c, pc, files, enumerated, inspectVars, verVars, fmtVars, extVars>>

(***************************************************************************)
(* Bounds.                                                                 *)
(***************************************************************************)
MaxFiles == 3      \* longest entry sequence handed to sortFiles
MaxSegs == 2       \* most '.'-separated segments of a generated version token
MaxDepth == 2      \* largest value given to --depth

(***************************************************************************)
(* Strings.                                                                *)
(***************************************************************************)
Ord(ch) ==
  CASE ch = "\"" -> 34 [] ch = "*" -> 42 [] ch = "+" -> 43 [] ch = "-" -> 45
    [] ch = "." -> 46 [] ch = "/" -> 47
    [] ch = "0" -> 48 [] ch = "1" -> 49 [] ch = "2" -> 50 [] ch = "3" -> 51
    [] ch = "4" -> 52 [] ch = "5" -> 53 [] ch = "6" -> 54 [] ch = "7" -> 55
    [] ch = "8" -> 56 [] ch = "9" -> 57 [] ch = "?" -> 63
    [] ch = "B" -> 66 [] ch = "T" -> 84 [] ch = "X" -> 88 [] ch = "\\" -> 92
    [] ch = "a" -> 97 [] ch = "b" -> 98 [] ch = "c" -> 99 [] ch = "d" -> 100
    [] ch = "g" -> 103 [] ch = "l" -> 108 [] ch = "o" -> 111 [] ch = "p" -> 112
    [] ch = "q" -> 113 [] ch = "r" -> 114 [] ch = "t" -> 116 [] ch = "x" -> 120

Min(a, b) == IF a < b THEN a ELSE b

\* Go's built-in < on strings: bytewise lexicographic, a proper prefix first.
StrLess(s, t) ==
  \E k \in 1..(Min(Len(s), Len(t)) + 1) :
    /\ \A m \in 1..(k - 1) : s[m] = t[m]
    /\ \/ k > Len(s) /\ k <= Len(t)
       \/ k <= Len(s) /\ k <= Len(t) /\ Ord(s[k]) < Ord(t[k])

\* strings.ToLower on the letters of the model's alphabet.
LowerCh(ch) ==
  CASE ch = "B" -> "b" [] ch = "T" -> "t" [] ch = "X" -> "x" [] OTHER -> ch

ToLower(s) == [k \in 1..Len(s) |-> LowerCh(s[k])]

HasPrefix(s, p) == Len(p) <= Len(s) /\ SubSeq(s, 1, Len(p)) = p

HasSuffix(s, p) == Len(p) <= Len(s) /\ SubSeq(s, Len(s) - Len(p) + 1, Len(s)) = p

Contains(s, ch) == \E k \in 1..Len(s) : s[k] = ch

\* strings.Count(s, ch) for a one-byte separator.
Count(s, ch) == Cardinality({k \in 1..Len(s) : s[k] = ch})

\* strings.Split(s, sep) for a one-byte separator: always at least one part.
RECURSIVE SplitFrom(_, _, _, _)
SplitFrom(s, sep, k, cur) ==
  IF k > Len(s) THEN <<cur>>
  ELSE IF s[k] = sep THEN <<cur>> \o SplitFrom(s, sep, k + 1, <<>>)
  ELSE SplitFrom(s, sep, k + 1, Append(cur, s[k]))

Split(s, sep) == SplitFrom(s, sep, 1, <<>>)

\* strings.Join(parts, sep) for a non-empty list of parts.
RECURSIVE JoinWith(_, _)
JoinWith(parts, sep) ==
  IF Len(parts) = 1 THEN parts[1]
  ELSE parts[1] \o <<sep>> \o JoinWith(Tail(parts), sep)

\* filepath.Base: trailing separators stripped, then the last element;
\* "." for an empty path and "/" for a path of separators only.
RECURSIVE StripSlashes(_)
StripSlashes(s) ==
  IF Len(s) > 0 /\ s[Len(s)] = "/" THEN StripSlashes(SubSeq(s, 1, Len(s) - 1)) ELSE s

Base(path) ==
  IF Len(path) = 0 THEN <<".">>
  ELSE LET p == StripSlashes(path)
           seps == {k \in 1..Len(p) : p[k] = "/"}
           from == IF seps = {} THEN 1
                   ELSE (CHOOSE k \in seps : \A m \in seps : m <= k) + 1
       IN IF Len(p) = 0 THEN <<"/">> ELSE SubSeq(p, from, Len(p))

\* filepath.Ext: scanning back from the end, stop at a separator; the suffix
\* from the last '.' of the final element, "" when there is none.
RECURSIVE ExtFrom(_, _)
ExtFrom(path, k) ==
  IF k < 1 \/ path[k] = "/" THEN <<>>
  ELSE IF path[k] = "." THEN SubSeq(path, k, Len(path))
  ELSE ExtFrom(path, k - 1)

Ext(path) == ExtFrom(path, Len(path))

(***************************************************************************)
(* Version tokens.                                                         *)
(***************************************************************************)
IsDigit(ch) == Ord(ch) >= 48 /\ Ord(ch) <= 57

RECURSIVE DigitsValue(_)
DigitsValue(s) ==
  IF Len(s) = 0 THEN 0
  ELSE 10 * DigitsValue(SubSeq(s, 1, Len(s) - 1)) + (Ord(s[Len(s)]) - 48)

\* strconv.Atoi with the error dropped (n, _ := strconv.Atoi(seg)): an optional
\* sign, then one or more decimal digits; anything else gives 0.
Atoi(seg) ==
  LET signed == Len(seg) > 0 /\ seg[1] \in {"+", "-"}
      body == IF signed THEN Tail(seg) ELSE seg
      ok == Len(body) > 0 /\ \A k \in 1..Len(body) : IsDigit(body[k])
  IN IF ~ok THEN 0
     ELSE IF signed /\ seg[1] = "-" THEN 0 - DigitsValue(body)
     ELSE DigitsValue(body)

RECURSIVE compareLoop(_, _, _)
compareLoop(v1Parts, v2Parts, i) ==
  IF i <= Len(v1Parts) /\ i <= Len(v2Parts)
  THEN LET n1 == Atoi(v1Parts[i])
           n2 == Atoi(v2Parts[i])
       IN IF n1 # n2 THEN n1 < n2 ELSE compareLoop(v1Parts, v2Parts, i + 1)
  ELSE Len(v1Parts) < Len(v2Parts)

\* Mutant: the tokens compared as strings.
compareVersionsLexical(a, b) == StrLess(a, b)

compareVersions(a, b) == compareLoop(Split(a, "."), Split(b, "."), 1)

\* extractVersion: the first '-'-separated part of the base name that holds
\* a '.' and does not start with one; "" when there is none.
RECURSIVE firstVersionPart(_, _)
firstVersionPart(parts, k) ==
  IF k > Len(parts) THEN <<>>
  ELSE IF Contains(parts[k], ".") /\ ~HasPrefix(parts[k], <<".">>) THEN parts[k]
  ELSE firstVersionPart(parts, k + 1)

extractVersion(name) == firstVersionPart(Split(Base(name), "-"), 1)

(***************************************************************************)
(* sortFiles.                                                              *)
(***************************************************************************)
Range(s) == {s[k] : k \in 1..Len(s)}

Swap(s, i, j) == [s EXCEPT ![i] = s[j], ![j] = s[i]]

\* Go's sort package, insertionSortLessFunc: what sort.Slice runs on a slice
\* of at most 12 elements and sort.SliceStable on one of at most 20.
RECURSIVE insertionInner(_, _, _)
insertionInner(s, j, less) ==
  IF j > 1 /\ less[s[j]][s[j - 1]]
  THEN insertionInner(Swap(s, j, j - 1), j - 1, less)
  ELSE s

RECURSIVE insertionOuter(_, _, _)
insertionOuter(s, i, less) ==
  IF i <= Len(s) THEN insertionOuter(insertionInner(s, i, less), i + 1, less) ELSE s

sortSlice(s, less) == insertionOuter(s, 2, less)

\* The boolean comparator sortFiles passes to sort.Slice for each --sort key.
TimeLess(tx, ty) == Len(tx) = 1 /\ Len(ty) = 1 /\ tx[1] < ty[1]

lessPrimary(cmd, x, y) ==
  CASE cmd["sort"] = "size" -> x.info.size < y.info.size
    [] cmd["sort"] = "mtime" -> x.info.mtime < y.info.mtime
    [] cmd["sort"] = "ctime" -> TimeLess(x.info.ctime, y.info.ctime)
    [] cmd["sort"] = "atime" -> TimeLess(x.info.atime, y.info.atime)
    [] cmd["sort"] = "extension" ->
         IF Ext(x.name) = Ext(y.name) THEN StrLess(x.name, y.name)
         ELSE StrLess(Ext(x.name), Ext(y.name))
    [] cmd["sort"] = "version" ->
         IF extractVersion(x.name) = extractVersion(y.name)
         THEN StrLess(x.name, y.name)
         ELSE compareVersions(extractVersion(x.name), extractVersion(y.name))
    [] OTHER ->
         IF cmd["ignore-case"] THEN StrLess(ToLower(x.name), ToLower(y.name))
         ELSE StrLess(x.name, y.name)

primarySort(cmd, s) ==
  sortSlice(s, [x \in Range(s) |-> [y \in Range(s) |-> lessPrimary(cmd, x, y)]])

\* Mutant: the comparator without its second half.
lessDirsFirstLoose(x, y) == x.info.isDir

\* The dirs-first step: sort.SliceStable with "i is a directory, j is not".
lessDirsFirst(x, y) == x.info.isDir /\ ~y.info.isDir

dirsFirstStep(s) ==
  sortSlice(s, [x \in Range(s) |-> [y \in Range(s) |-> lessDirsFirst(x, y)]])

\* The reverse step: swap from both ends while i < j (0-based in the source).
RECURSIVE reverseLoop(_, _, _)
reverseLoop(s, i, j) ==
  IF i < j THEN reverseLoop(Swap(s, i, j), i + 1, j - 1) ELSE s

\* Mutant: the loop started with j one short of the last index.
reverseStepShort(s) == reverseLoop(s, 1, Len(s) - 1)

reverseStep(s) == reverseLoop(s, 1, Len(s))

sortFiles(cmd, s) ==
  LET sorted == primarySort(cmd, s)
      parted == IF cmd["dirs-first"] THEN dirsFirstStep(sorted) ELSE sorted
  IN IF cmd["reverse"] THEN reverseStep(parted) ELSE parted

(***************************************************************************)
(* inspectArchive: the fs.WalkDir callback.                                *)
(***************************************************************************)
\* filepath.Clean: empty and "." elements dropped, ".." resolved against the
\* element before it (or dropped at the root), no trailing separator.
RECURSIVE cleanSegs(_, _, _)
cleanSegs(segs, acc, rooted) ==
  IF Len(segs) = 0 THEN acc
  ELSE LET h == Head(segs)
       IN IF h = <<>> \/ h = <<".">> THEN cleanSegs(Tail(segs), acc, rooted)
          ELSE IF h # <<".", ".">> THEN cleanSegs(Tail(segs), Append(acc, h), rooted)
          ELSE IF Len(acc) > 0 /\ acc[Len(acc)] # <<".", ".">>
               THEN cleanSegs(Tail(segs), SubSeq(acc, 1, Len(acc) - 1), rooted)
          ELSE IF rooted THEN cleanSegs(Tail(segs), acc, rooted)
          ELSE cleanSegs(Tail(segs), Append(acc, h), rooted)

Clean(path) ==
  IF Len(path) = 0 THEN <<".">>
  ELSE LET rooted == path[1] = "/"
           segs == cleanSegs(Split(path, "/"), <<>>, rooted)
           body == IF Len(segs) = 0 THEN <<>> ELSE JoinWith(segs, "/")
       IN IF rooted THEN <<"/">> \o body
          ELSE IF Len(body) = 0 THEN <<".">> ELSE body

\* filepath.Join of two elements: empty elements ignored, the rest joined
\* with a separator and cleaned.
filepathJoin(a, b) ==
  IF Len(a) = 0 /\ Len(b) = 0 THEN <<>>
  ELSE IF Len(a) = 0 THEN Clean(b)
  ELSE IF Len(b) = 0 THEN Clean(a)
  ELSE Clean(a \o <<"/">> \o b)

\* fmt.Sprintf("%q", name): double-quoted, '"' and '\' escaped.
RECURSIVE quoteBody(_)
quoteBody(s) ==
  IF Len(s) = 0 THEN <<>>
  ELSE (IF Head(s) \in {"\"", "\\"} THEN <<"\\", Head(s)>> ELSE <<Head(s)>>)
       \o quoteBody(Tail(s))

Quote(s) == <<"\"">> \o quoteBody(s) \o <<"\"">>

\* filepath.Match for patterns of literals, '*' and '?': '*' matches any run
\* of non-separator bytes, '?' one non-separator byte.
RECURSIVE Match(_, _)
Match(pattern, name) ==
  IF Len(pattern) = 0 THEN Len(name) = 0
  ELSE IF Head(pattern) = "*"
       THEN \E k \in 0..Len(name) :
              /\ \A m \in 1..k : name[m] # "/"
              /\ Match(Tail(pattern), SubSeq(name, k + 1, Len(name)))
  ELSE IF Head(pattern) = "?"
       THEN Len(name) > 0 /\ Head(name) # "/" /\ Match(Tail(pattern), Tail(name))
  ELSE Len(name) > 0 /\ Head(name) = Head(pattern) /\ Match(Tail(pattern), Tail(name))

\* c.Args().First(): the archive's path on the command line.
ArchivePath == <<"t", ".", "t", "a", "r">>

\* The root fs.WalkDir starts at; its callback gets path "." and a directory.
RootPath == <<".">>

Node(path, isDir, size, mtime) ==
  [path |-> path, isDir |-> isDir, size |-> size, mtime |-> mtime]

RootNode == Node(RootPath, TRUE, 0, 0)

NodeAt(arch, path) ==
  IF path = RootPath THEN RootNode ELSE CHOOSE n \in arch : n.path = path

\* The directory holding a path ("." for a top-level one).
Parent(path) ==
  LET seps == {k \in 1..Len(path) : path[k] = "/"}
  IN IF seps = {} THEN RootPath
     ELSE SubSeq(path, 1, (CHOOSE k \in seps : \A m \in seps : m <= k) - 1)

\* fs.ReadDir: the entries of a directory, sorted by file name.
RECURSIVE sortedByName(_)
sortedByName(paths) ==
  IF paths = {} THEN <<>>
  ELSE LET first == CHOOSE q \in paths :
                      \A r \in paths : r = q \/ StrLess(Base(q), Base(r))
       IN <<first>> \o sortedByName(paths \ {first})

ReadDir(arch, dir) ==
  sortedByName({n.path : n \in {m \in arch : Parent(m.path) = dir}})

\* d.Info(): what the entry's fs.FileInfo exposes.
Info(node) ==
  [name |-> Base(node.path), isDir |-> node.isDir, size |-> node.size,
   mtime |-> node.mtime, ctime |-> <<>>, atime |-> <<>>]

\* Mutant: the depth test without its "+1".
walkFnDepthFromZero(cmd, node) ==
  LET name == Base(node.path)
  IN IF cmd["dirs-only"] /\ ~node.isDir THEN "nil"
     ELSE IF /\ cmd["pattern"] # <<>>
             /\ ~Match(cmd["pattern"], name)
             /\ (~cmd["match-dirs"] \/ ~node.isDir) THEN "nil"
     ELSE IF /\ cmd["ipattern"] # <<>>
             /\ Match(cmd["ipattern"], name)
             /\ (~cmd["match-dirs"] \/ ~node.isDir) THEN "nil"
     ELSE IF cmd["depth"] > 0 /\ Count(node.path, "/") > cmd["depth"]
          THEN IF node.isDir THEN "SkipDir" ELSE "nil"
     ELSE "append"

\* The callback up to its decision: "nil" (return nil without appending),
\* "SkipDir" (return fs.SkipDir) or "append".
walkFn(cmd, node) ==
  LET name == Base(node.path)
  IN IF cmd["dirs-only"] /\ ~node.isDir THEN "nil"
     ELSE IF /\ cmd["pattern"] # <<>>
             /\ ~Match(cmd["pattern"], name)
             /\ (~cmd["match-dirs"] \/ ~node.isDir) THEN "nil"
     ELSE IF /\ cmd["ipattern"] # <<>>
             /\ Match(cmd["ipattern"], name)
             /\ (~cmd["match-dirs"] \/ ~node.isDir) THEN "nil"
     ELSE IF cmd["depth"] > 0 /\ Count(node.path, "/") + 1 > cmd["depth"]
          THEN IF node.isDir THEN "SkipDir" ELSE "nil"
     ELSE "append"

\* The name the callback stores for an appended entry.
entryName(cmd, node) ==
  LET slashed == IF node.isDir /\ ~HasSuffix(node.path, <<"/">>)
                 THEN node.path \o <<"/">> ELSE node.path
      full == IF cmd["full-path"] THEN filepathJoin(ArchivePath, slashed) ELSE slashed
  IN IF cmd["quotes"] THEN Quote(full) ELSE full

\* fs.WalkDir after a callback: a directory that was not skipped has its
\* entries walked next, before the rest.
descend(arch, node, rest) ==
  IF node.isDir THEN ReadDir(arch, node.path) \o rest ELSE rest

(***************************************************************************)
(* inspectArchive: the renderers.                                          *)
(***************************************************************************)
\* outputText with the column flags unset: the parts the sort key adds.
textParts(cmd, f) ==
  (IF cmd["sort"] = "extension"
   THEN << <<"e", "x", "t", "=">> \o Ext(f.name) >> ELSE <<>>)
  \o (IF cmd["sort"] = "version" /\ extractVersion(f.name) # <<>>
      THEN << <<"v", "e", "r", "=">> \o extractVersion(f.name) >> ELSE <<>>)

outputText(cmd, fs) ==
  [k \in 1..Len(fs) |-> [parts |-> textParts(cmd, fs[k]), name |-> fs[k].name]]

\* outputJSON with the column flags unset; an optional key is a sequence.
outputJSON(cmd, fs) ==
  [k \in 1..Len(fs) |->
     [name |-> fs[k].name, size |-> fs[k].info.size, mtime |-> fs[k].info.mtime,
      extension |-> IF cmd["sort"] = "extension" THEN <<Ext(fs[k].name)>> ELSE <<>>,
      version |-> IF cmd["sort"] = "version" /\ extractVersion(fs[k].name) # <<>>
                  THEN <<extractVersion(fs[k].name)>> ELSE <<>>]]

\* Mutant: only the atime key refused.
treeRefusalAtimeOnly(cmd) ==
  IF cmd["sort"] = "atime" THEN "atime sort is unsupported when using --tree" ELSE ""

\* outputTree: the error it returns before drawing anything ("" for none).
treeRefusal(cmd) ==
  IF cmd["sort"] = "atime" THEN "atime sort is unsupported when using --tree"
  ELSE IF cmd["sort"] = "extension"
       THEN "extension sort is unsupported when using --tree"
  ELSE ""

\* outputTree: the options handed to the tree library, which draws the file
\* system itself (it is given fsys, not files).
treeOptions(cmd) ==
  [All |-> cmd["all"], DirsOnly |-> cmd["dirs-only"], FullPath |-> cmd["full-path"],
   IgnoreCase |-> cmd["ignore-case"], DeepLevel |-> cmd["depth"],
   Pattern |-> cmd["pattern"], IPattern |-> cmd["ipattern"],
   MatchDirs |-> cmd["match-dirs"], Quotes |-> cmd["quotes"],
   NoSort |-> cmd["sort"] = "", ModSort |-> cmd["sort"] = "mtime",
   DirSort |-> cmd["dirs-first"], NameSort |-> cmd["sort"] = "name",
   SizeSort |-> cmd["sort"] = "size", CTimeSort |-> cmd["sort"] = "ctime",
   VerSort |-> cmd["sort"] = "version", ReverSort |-> cmd["reverse"]]

(***************************************************************************)
(* formatBytes.  An int64 i >= 0 is its seven base-1024 digits, lowest      *)
(* first, so that digit k+1 counts the unit 1024^k: K, M, G, T, P, E.       *)
(***************************************************************************)
Radix == 1024      \* tree.KB

NDigits == 7       \* an int64 below 2^63 = 8 * 1024^6

Mantissa == 53     \* significant bits of a float64

Units == <<"K", "M", "G", "T", "P", "E">>

RECURSIVE BitLen(_)
BitLen(x) == IF x = 0 THEN 0 ELSE 1 + BitLen(x \div 2)

RECURSIVE Pow2(_)
Pow2(n) == IF n = 0 THEN 1 ELSE 2 * Pow2(n - 1)

\* The highest non-zero digit's position (1 for i = 0).
TopIndex(d) ==
  LET nz == {k \in 1..Len(d) : d[k] # 0}
  IN IF nz = {} THEN 1 ELSE CHOOSE k \in nz : \A m \in nz : m <= k

\* One added at digit k, the carry going up; the digit at top takes the last
\* carry (and may become Radix).
RECURSIVE addOne(_, _, _)
addOne(d, k, top) ==
  IF d[k] + 1 = Radix /\ k < top
  THEN addOne([d EXCEPT ![k] = 0], k + 1, top)
  ELSE [d EXCEPT ![k] = d[k] + 1]

\* float64(i): i rounded to Mantissa significant bits, ties to even.  The
\* bits dropped (at most 10) all lie in the lowest digit.
toFloat64(d) ==
  LET top == TopIndex(d)
      drop == (10 * (top - 1) + BitLen(d[top])) - Mantissa
  IN IF drop <= 0 THEN d
     ELSE LET q == Pow2(drop)
              rem == d[1] % q
              kept == [d EXCEPT ![1] = d[1] - rem]
              odd == IF q < Radix THEN (d[1] \div q) % 2 = 1 ELSE d[2] % 2 = 1
              up == 2 * rem > q \/ (2 * rem = q /\ odd)
          IN IF ~up THEN kept
             ELSE IF kept[1] + q = Radix THEN addOne([kept EXCEPT ![1] = 0], 2, top)
             ELSE [kept EXCEPT ![1] = kept[1] + q]

\* A fraction given by its digits (lowest first) against one half.
fracAgainstHalf(digs) ==
  LET m == Len(digs)
  IN IF m = 0 THEN "below"
     ELSE IF 2 * digs[m] > Radix THEN "above"
     ELSE IF 2 * digs[m] < Radix THEN "below"
     ELSE IF \E k \in 1..(m - 1) : digs[k] # 0 THEN "above"
     ELSE "half"

\* Rounding to nearest, ties to even, as fmt's %f does on the exact value.
roundHalfEven(whole, cmp) ==
  IF cmp = "above" \/ (cmp = "half" /\ whole % 2 = 1) THEN whole + 1 ELSE whole

\* A fraction times ten: its new digits and the whole number carried out.
RECURSIVE times10(_, _, _)
times10(digs, k, carry) ==
  IF k > Len(digs) THEN [digits |-> digs, carry |-> carry]
  ELSE times10([digs EXCEPT ![k] = (10 * digs[k] + carry) % Radix], k + 1,
               (10 * digs[k] + carry) \div Radix)

DigitChar(n) == <<"0", "1", "2", "3", "4", "5", "6", "7", "8", "9">>[n + 1]

RECURSIVE Decimal(_)
Decimal(n) ==
  IF n < 10 THEN <<DigitChar(n)>> ELSE Decimal(n \div 10) \o <<DigitChar(n % 10)>>

\* Mutant: the decimal dropped only above 10.
noDecimalAbove10(eFmt, n) == eFmt = <<>> \/ n > 10

\* sFmt is "%.0f": in the default case, and when eFmt != "" && n >= 10 (n is
\* given by its whole part).
noDecimal(eFmt, n) == eFmt = <<>> \/ n >= 10

formatBytes(d) ==
  LET top == TopIndex(d)
      eFmt == IF top = 1 THEN <<>> ELSE <<Units[top - 1]>>
      f == toFloat64(d)
      whole == f[top]
      frac == SubSeq(f, 1, top - 1)
  IN IF noDecimal(eFmt, whole)
     THEN Decimal(roundHalfEven(whole, fracAgainstHalf(frac))) \o eFmt
     ELSE LET m == times10(frac, 1, 0)
              tenths == roundHalfEven(10 * whole + m.carry, fracAgainstHalf(m.digits))
          IN Decimal(tenths \div 10) \o <<".">> \o Decimal(tenths % 10) \o eFmt

(***************************************************************************)
(* Inputs.                                                                 *)
(***************************************************************************)
SortKeys == {"name", "extension", "version", "size", "atime", "ctime", "mtime"}

Entry(name, isDir, size, mtime, ctime, atime) ==
  [name |-> name,
   info |-> [name |-> Base(name), isDir |-> isDir, size |-> size,
             mtime |-> mtime, ctime |-> ctime, atime |-> atime]]

\* Entries sortFiles is exercised on: equal sizes and times under distinct
\* names, names equal up to case, directories, versioned names, version
\* tokens that are numerically equal but written differently.
SortPool ==
  { Entry(<<"a", "/">>, TRUE, 0, 3, <<>>, <<>>),
    Entry(<<"c", ".", "d", "/">>, TRUE, 0, 1, <<1>>, <<2>>),
    Entry(<<"b", ".", "t", "x", "t">>, FALSE, 1, 1, <<2>>, <<1>>),
    Entry(<<"a", ".", "l", "o", "g">>, FALSE, 1, 2, <<>>, <<1>>),
    Entry(<<"B", ".", "t", "x", "t">>, FALSE, 2, 2, <<1>>, <<>>),
    Entry(<<"p", "-", "1", ".", "2">>, FALSE, 3, 4, <<3>>, <<3>>),
    Entry(<<"p", "-", "1", ".", "1", "0">>, FALSE, 2, 5, <<3>>, <<4>>),
    Entry(<<"q", "-", "1", ".", "0">>, FALSE, 4, 6, <<>>, <<>>),
    Entry(<<"q", "-", "1", ".", "0", "0">>, FALSE, 4, 6, <<>>, <<>>) }

\* Every enumeration order of at most MaxFiles distinct entries.
Enumerations ==
  UNION {{s \in [1..n -> SortPool] : \A i, j \in 1..n : i # j => s[i] # s[j]} :
         n \in 0..MaxFiles}

\* cli defaults of the inspect flags.
DefaultFlags ==
  [f \in {"json", "tree", "reverse", "dirs-first", "all", "dirs-only",
          "full-path", "ignore-case", "match-dirs", "quotes"} |-> FALSE]
  @@ ("sort" :> "name") @@ ("depth" :> 0)
  @@ ("pattern" :> <<>>) @@ ("ipattern" :> <<>>)

SortFlags ==
  {[[[[DefaultFlags EXCEPT !["sort"] = k] EXCEPT !["reverse"] = r]
       EXCEPT !["dirs-first"] = d] EXCEPT !["ignore-case"] = ic] :
     k \in SortKeys, r \in BOOLEAN, d \in BOOLEAN, ic \in BOOLEAN}

\* A flag set, in the order of the inspect command's flag list.
MakeFlags(k, r, df, al, dOnly, fp, ic, j, t, dp, pat, ipat, md, q) ==
  ("sort" :> k) @@ ("reverse" :> r) @@ ("dirs-first" :> df) @@ ("all" :> al)
  @@ ("dirs-only" :> dOnly) @@ ("full-path" :> fp) @@ ("ignore-case" :> ic)
  @@ ("json" :> j) @@ ("tree" :> t) @@ ("depth" :> dp) @@ ("pattern" :> pat)
  @@ ("ipattern" :> ipat) @@ ("match-dirs" :> md) @@ ("quotes" :> q)

\* Glob patterns given to --pattern and --ipattern; <<>> is the unset flag.
Patterns == { <<>>, <<"*", ".", "t", "x", "t">>, <<"a", "*">> }

\* Archives inspect is run on.
Archives ==
  { { Node(<<"a">>, TRUE, 0, 1), Node(<<"a", "/", "x", ".", "t", "x", "t">>, FALSE, 3, 2), Node(<<"b", ".", "l", "o", "g">>, FALSE, 5, 3) },
    { Node(<<"a">>, TRUE, 0, 1), Node(<<"a", "/", "b">>, TRUE, 0, 2), Node(<<"a", "/", "b", "/", "c">>, FALSE, 4, 3),
      Node(<<"a", "/", "t", ".", "t", "x", "t">>, FALSE, 2, 4) },
    { Node(<<".", "x">>, FALSE, 1, 1), Node(<<"d">>, TRUE, 0, 2), Node(<<"d", "/", ".", "x">>, FALSE, 2, 3),
      Node(<<"d", "/", "t", ".", "t", "x", "t">>, FALSE, 3, 4) } }

\* Runs that vary the walk's flags and the renderer under the default order,
\* and runs that vary the ordering flags and the renderer with no filter.
FilterRuns ==
  {MakeFlags("name", FALSE, FALSE, al, dOnly, fp, FALSE, j, t, dp, pat, ipat, md, q) :
     al \in BOOLEAN, dOnly \in BOOLEAN, fp \in BOOLEAN, j \in BOOLEAN, t \in BOOLEAN,
     dp \in 0..MaxDepth, pat \in Patterns, ipat \in Patterns,
     md \in BOOLEAN, q \in BOOLEAN}

OrderRuns ==
  {MakeFlags(k, r, df, al, FALSE, FALSE, ic, j, t, 0, <<>>, <<>>, FALSE, FALSE) :
     k \in SortKeys, r \in BOOLEAN, df \in BOOLEAN, al \in BOOLEAN,
     ic \in BOOLEAN, j \in BOOLEAN, t \in BOOLEAN}

InspectFlags == FilterRuns \cup OrderRuns

(***************************************************************************)
(* SpecSort: sortFiles applied to an enumerated entry sequence.            *)
(***************************************************************************)
NoToken == <<>>

NoSize == <<>>

NoPath == <<>>

InitSort ==
  /\ c \in SortFlags
  /\ files \in Enumerations
  /\ enumerated = files
  /\ pc = "walked"
  /\ archive = {} /\ pending = <<>> /\ visited = <<>>
  /\ renderer = "" /\ out = <<>> /\ err = ""
  /\ v1 = NoToken /\ v2 = NoToken /\ lt = FALSE /\ gt = FALSE
  /\ nbytes = NoSize /\ text = <<>>
  /\ dst = NoPath /\ created = <<>>

SortFiles ==
  /\ pc = "walked"
  /\ enumerated' = files
  /\ files' = sortFiles(c, files)
  /\ pc' = "sorted"
  /\ UNCHANGED <<c, inspectVars, verVars, fmtVars, extVars>>

NextSort == SortFiles

SpecSort == InitSort /\ [][NextSort]_vars

(***************************************************************************)
(* Spec: one run of the inspect command.                                   *)
(***************************************************************************)
Init ==
  /\ c \in InspectFlags
  /\ archive \in Archives
  /\ pc = "walk"
  /\ pending = <<RootPath>>
  /\ visited = <<>>
  /\ files = <<>> /\ enumerated = <<>>
  /\ renderer = "" /\ out = <<>> /\ err = ""
  /\ v1 = NoToken /\ v2 = NoToken /\ lt = FALSE /\ gt = FALSE
  /\ nbytes = NoSize /\ text = <<>>
  /\ dst = NoPath /\ created = <<>>

Walking == pc = "walk" /\ pending # <<>>

Current == NodeAt(archive, Head(pending))

\* The callback returns nil without appending; a directory is still descended.
VisitOmit ==
  /\ Walking
  /\ walkFn(c, Current) = "nil"
  /\ visited' = Append(visited, Current.path)
  /\ pending' = descend(archive, Current, Tail(pending))
  /\ UNCHANGED <<c, pc, files, enumerated, archive, renderer, out, err, verVars, fmtVars, extVars>>

\* The callback returns fs.SkipDir: the directory's entries are not walked.
VisitPrune ==
  /\ Walking
  /\ walkFn(c, Current) = "SkipDir"
  /\ visited' = Append(visited, Current.path)
  /\ pending' = Tail(pending)
  /\ UNCHANGED <<c, pc, files, enumerated, archive, renderer, out, err, verVars, fmtVars, extVars>>

\* The callback appends the entry and returns nil.
VisitAppend ==
  /\ Walking
  /\ walkFn(c, Current) = "append"
  /\ visited' = Append(visited, Current.path)
  /\ files' = Append(files, [name |-> entryName(c, Current), info |-> Info(Current)])
  /\ pending' = descend(archive, Current, Tail(pending))
  /\ UNCHANGED <<c, pc, enumerated, archive, renderer, out, err, verVars, fmtVars, extVars>>

\* The walk hands the callback an error, or d.Info() fails: the command
\* returns it, nothing is sorted or written.
WalkError ==
  /\ Walking
  /\ err' = "walk error"
  /\ pc' = "done"
  /\ UNCHANGED <<c, files, enumerated, archive, pending, visited, renderer, out, verVars, fmtVars, extVars>>

WalkFinished == pc = "walk" /\ pending = <<>>

\* The rest of inspectArchive after the walk: sortFiles, then the renderer
\* the switch selects.
InspectJSON ==
  /\ WalkFinished
  /\ c["json"]
  /\ enumerated' = files
  /\ files' = sortFiles(c, files)
  /\ renderer' = "json"
  /\ out' = outputJSON(c, files')
  /\ err' = ""
  /\ pc' = "done"
  /\ UNCHANGED <<c, archive, pending, visited, verVars, fmtVars, extVars>>

InspectTreeRefused ==
  /\ WalkFinished
  /\ ~c["json"] /\ c["tree"]
  /\ treeRefusal(c) # ""
  /\ enumerated' = files
  /\ files' = sortFiles(c, files)
  /\ renderer' = "tree"
  /\ err' = treeRefusal(c)
  /\ pc' = "done"
  /\ UNCHANGED <<c, archive, pending, visited, out, verVars, fmtVars, extVars>>

InspectTree ==
  /\ WalkFinished
  /\ ~c["json"] /\ c["tree"]
  /\ treeRefusal(c) = ""
  /\ enumerated' = files
  /\ files' = sortFiles(c, files)
  /\ renderer' = "tree"
  /\ out' = << [tree |-> treeOptions(c)] >>
  /\ err' = ""
  /\ pc' = "done"
  /\ UNCHANGED <<c, archive, pending, visited, verVars, fmtVars, extVars>>

InspectText ==
  /\ WalkFinished
  /\ ~c["json"] /\ ~c["tree"]
  /\ enumerated' = files
  /\ files' = sortFiles(c, files)
  /\ renderer' = "text"
  /\ out' = outputText(c, files')
  /\ err' = ""
  /\ pc' = "done"
  /\ UNCHANGED <<c, archive, pending, visited, verVars, fmtVars, extVars>>

Next ==
  \/ VisitOmit
  \/ VisitPrune
  \/ VisitAppend
  \/ WalkError
  \/ InspectJSON
  \/ InspectTreeRefused
  \/ InspectTree
  \/ InspectText

Spec == Init /\ [][Next]_vars

(***************************************************************************)
(* SpecFmt: formatBytes applied to a size.                                 *)
(***************************************************************************)
TopDigits == {1, 7, 8, 9, 10, 11, 512, 999, 1023}

SecondDigits == {0, 50, 51, 52, 511, 512, 513, 972, 973, 983, 1023}

FillDigits == {0, 1, 512, 1023}

SizeWith(k, top, second, fill) ==
  [j \in 1..NDigits |->
     IF j > k THEN 0 ELSE IF j = k THEN top ELSE IF j = k - 1 THEN second ELSE fill]

\* Sizes around the unit, rounding and float64 boundaries, every unit reached.
Sizes ==
  {SizeWith(1, t, 0, 0) : t \in TopDigits \cup {0}}
  \cup {SizeWith(k, t, s, fl) :
          k \in 2..(NDigits - 1), t \in TopDigits, s \in SecondDigits, fl \in FillDigits}
  \cup {SizeWith(NDigits, t, s, fl) :
          t \in {u \in TopDigits : u < 8}, s \in SecondDigits, fl \in FillDigits}

InitFmt ==
  /\ nbytes \in Sizes
  /\ text = <<>>
  /\ pc = "size"
  /\ c = DefaultFlags /\ files = <<>> /\ enumerated = <<>>
  /\ archive = {} /\ pending = <<>> /\ visited = <<>>
  /\ renderer = "" /\ out = <<>> /\ err = ""
  /\ v1 = NoToken /\ v2 = NoToken /\ lt = FALSE /\ gt = FALSE
  /\ dst = NoPath /\ created = <<>>

FormatBytes ==
  /\ pc = "size"
  /\ text' = formatBytes(nbytes)
  /\ pc' = "formatted"
  /\ UNCHANGED <<c, files, enumerated, inspectVars, verVars, nbytes, extVars>>

NextFmt == FormatBytes

SpecFmt == InitFmt /\ [][NextFmt]_vars

(***************************************************************************)
(* Claims about sortFiles, checked under SpecSort.                         *)
(***************************************************************************)
WithFlag(cmd, f, v) == [cmd EXCEPT ![f] = v]

IndexReverse(s) == [k \in 1..Len(s) |-> s[Len(s) - k + 1]]

IsDirEntry(e) == e.info.isDir

IsFileEntry(e) == ~e.info.isDir

\* The value the --sort key orders by.
PrimaryKey(cmd, e) ==
  CASE cmd["sort"] = "size" -> <<e.info.size>>
    [] cmd["sort"] = "mtime" -> <<e.info.mtime>>
    [] cmd["sort"] = "ctime" -> e.info.ctime
    [] cmd["sort"] = "atime" -> e.info.atime
    [] cmd["sort"] = "extension" -> Ext(e.name)
    [] cmd["sort"] = "version" -> extractVersion(e.name)
    [] OTHER -> IF cmd["ignore-case"] THEN ToLower(e.name) ELSE e.name

Orderings(s) ==
  {t \in [1..Len(s) -> Range(s)] : \A i, j \in 1..Len(s) : i # j => t[i] # t[j]}

\* C1: for every sort key, two entries with equal primary keys come out in
\* lexicographic order of their names, and the sorted sequence is the same
\* for every enumeration order of the same entries.
C1_TiesBrokenByName ==
  pc = "sorted" /\ ~c["reverse"] /\ ~c["dirs-first"] =>
    /\ \A i, j \in 1..Len(files) :
         i < j /\ PrimaryKey(c, files[i]) = PrimaryKey(c, files[j])
           => StrLess(files[i].name, files[j].name)
    /\ \A t \in Orderings(enumerated) : sortFiles(c, t) = files

\* C2: the result with reverse set is the exact reverse of the result with
\* reverse unset, for every key and either dirs-first setting; with dirs-first
\* and reverse both set every non-directory precedes every directory.
C2_ReverseIsExactReverse ==
  pc = "sorted" =>
    /\ c["reverse"] =>
         files = IndexReverse(sortFiles(WithFlag(c, "reverse", FALSE), enumerated))
    /\ ~c["reverse"] =>
         sortFiles(WithFlag(c, "reverse", TRUE), enumerated) = IndexReverse(files)
    /\ c["reverse"] /\ c["dirs-first"] =>
         \A i, j \in 1..Len(files) :
           i < j => ~(IsDirEntry(files[i]) /\ IsFileEntry(files[j]))

C2_Witness ==
  /\ pc = "sorted" /\ c["reverse"] /\ c["dirs-first"]
  /\ Len(files) = MaxFiles
  /\ IsFileEntry(files[1]) /\ IsDirEntry(files[Len(files)])
  /\ files # enumerated

\* C3: the dirs-first step is a stable partition of the primary sort's result
\* (directories first, each group in its primary order) and is idempotent.
C3_DirsFirstStablePartition ==
  pc = "sorted" /\ c["dirs-first"] =>
    LET prim == primarySort(c, enumerated)
        parted == IF c["reverse"] THEN IndexReverse(files) ELSE files
    IN /\ \A i, j \in 1..Len(parted) :
            i < j => ~(IsFileEntry(parted[i]) /\ IsDirEntry(parted[j]))
       /\ SelectSeq(parted, IsDirEntry) = SelectSeq(prim, IsDirEntry)
       /\ SelectSeq(parted, IsFileEntry) = SelectSeq(prim, IsFileEntry)
       /\ dirsFirstStep(parted) = parted

C3_Witness ==
  /\ pc = "sorted" /\ c["dirs-first"] /\ ~c["reverse"]
  /\ Len(files) = MaxFiles
  /\ Cardinality({k \in 1..Len(files) : IsDirEntry(files[k])}) = 2
  /\ files # primarySort(c, enumerated)

(***************************************************************************)
(* SpecVer: compareVersions applied to a pair of tokens.                   *)
(***************************************************************************)
Segments ==
  { <<"0">>, <<"1">>, <<"2">>, <<"1", "0">>, <<"a">> }

\* Tokens of at most MaxSegs segments, and some written out: a longer one,
\* empty segments, a zero-padded and a signed segment.
Tokens ==
  {JoinWith(p, ".") : p \in UNION {[1..n -> Segments] : n \in 1..MaxSegs}}
  \cup { <<"1", ".", "2", ".", "1">>, <<>>, <<"1", ".">>,
         <<"1", ".", "0", "0">>, <<"+", "1">> }

InitVer ==
  /\ v1 \in Tokens /\ v2 \in Tokens
  /\ lt = FALSE /\ gt = FALSE
  /\ nbytes = NoSize /\ text = <<>>
  /\ dst = NoPath /\ created = <<>>
  /\ pc = "tokens"
  /\ c = DefaultFlags /\ files = <<>> /\ enumerated = <<>>
  /\ archive = {} /\ pending = <<>> /\ visited = <<>>
  /\ renderer = "" /\ out = <<>> /\ err = ""

CompareVersions ==
  /\ pc = "tokens"
  /\ lt' = compareVersions(v1, v2)
  /\ gt' = compareVersions(v2, v1)
  /\ pc' = "compared"
  /\ UNCHANGED <<c, files, enumerated, inspectVars, v1, v2, fmtVars, extVars>>

NextVer == CompareVersions

SpecVer == InitVer /\ [][NextVer]_vars

\* The order the claim describes: the first shared segment whose integer
\* values differ decides; with none, the token with fewer segments is smaller.
SegmentwiseLess(a, b) ==
  LET pa == Split(a, ".")
      pb == Split(b, ".")
      differ == {k \in 1..Min(Len(pa), Len(pb)) : Atoi(pa[k]) # Atoi(pb[k])}
  IN IF differ = {} THEN Len(pa) < Len(pb)
     ELSE LET k == CHOOSE d \in differ : \A e \in differ : d <= e
          IN Atoi(pa[k]) < Atoi(pb[k])

\* C4: compareVersions is the segment-wise integer order with non-numeric
\* segments read as 0 and the shorter of two otherwise equal tokens first:
\* "1.2" < "1.10", "1.2" < "1.2.1", "1.a" and "1.0" are each not less than
\* the other, and the relation is irreflexive, asymmetric and transitive.
C4_VersionOrder ==
  pc = "compared" =>
    /\ lt = SegmentwiseLess(v1, v2)
    /\ \A seg \in Range(Split(v1, ".")) :
         (\E k \in 1..Len(seg) : ~IsDigit(seg[k]) /\ seg[k] \notin {"+", "-"})
           => Atoi(seg) = 0
    /\ v1 = <<"1", ".", "2">> /\ v2 = <<"1", ".", "1", "0">> => lt /\ ~gt
    /\ v1 = <<"1", ".", "2">> /\ v2 = <<"1", ".", "2", ".", "1">> => lt /\ ~gt
    /\ v1 = <<"1", ".", "a">> /\ v2 = <<"1", ".", "0">> => ~lt /\ ~gt
    /\ v1 = v2 => ~lt
    /\ ~(lt /\ gt)
    /\ lt => \A v3 \in Tokens : compareVersions(v2, v3) => compareVersions(v1, v3)

C4_Witness ==
  /\ pc = "compared"
  /\ v1 = <<"1", ".", "2">> /\ v2 = <<"1", ".", "1", "0">>
  /\ lt /\ ~gt

(***************************************************************************)
(* Claims about the inspect command, checked under Spec.                   *)
(***************************************************************************)
Listing == pc = "done" /\ renderer \in {"text", "json"}

\* The names written, in order.
OutNames == [k \in 1..Len(out) |-> out[k].name]

Members == archive \cup {RootNode}

\* The paths whose entry was written.
ListedPaths == {n.path : n \in {m \in Members : entryName(c, m) \in Range(OutNames)}}

\* An entry the filters other than the depth limit let through.
OtherwiseIncluded(n) == walkFn(WithFlag(c, "depth", 0), n) = "append"

Beneath(dir) == {m \in archive : HasPrefix(m.path, dir.path \o <<"/">>)}

NoFilters ==
  /\ ~c["dirs-only"] /\ c["pattern"] = <<>> /\ c["ipattern"] = <<>>
  /\ c["depth"] = 0

ArchiveABC ==
  { Node(<<"a">>, TRUE, 0, 1), Node(<<"a", "/", "b">>, TRUE, 0, 2), Node(<<"a", "/", "b", "/", "c">>, FALSE, 4, 3),
    Node(<<"a", "/", "t", ".", "t", "x", "t">>, FALSE, 2, 4) }

\* C5 as stated: with depth = number of separators (top level 0) and limit
\* N > 0, an entry is listed only if its depth is at most N, every otherwise
\* included entry of depth exactly N is listed, nothing beneath a directory
\* that exceeds the limit is visited; N = 1 lists a and a/b but not a/b/c.
C5_DepthFromZero ==
  Listing /\ c["depth"] > 0 =>
    /\ \A p \in ListedPaths : Count(p, "/") <= c["depth"]
    /\ \A n \in archive :
         Count(n.path, "/") = c["depth"] /\ OtherwiseIncluded(n)
           => n.path \in ListedPaths
    /\ \A n \in archive :
         n.isDir /\ Count(n.path, "/") > c["depth"]
           => \A m \in Beneath(n) : m.path \notin Range(visited)
    /\ (/\ c["depth"] = 1 /\ archive = ArchiveABC
        /\ ~c["dirs-only"] /\ c["pattern"] = <<>> /\ c["ipattern"] = <<>>)
         => (/\ <<"a">> \in ListedPaths /\ <<"a", "/", "b">> \in ListedPaths
             /\ <<"a", "/", "b", "/", "c">> \notin ListedPaths)

\* C5 amended: with level = number of separators plus one (top level 1), an
\* entry is listed only if its level is at most N, every otherwise included
\* entry of level at most N is listed, and a directory beyond the limit that
\* the other filters let through is pruned, nothing beneath it being visited;
\* N = 1 lists a only, N = 2 lists a and a/b but not a/b/c.
C5_DepthLimit ==
  Listing /\ c["depth"] > 0 =>
    /\ \A p \in ListedPaths : Count(p, "/") + 1 <= c["depth"]
    /\ \A n \in Members :
         Count(n.path, "/") + 1 <= c["depth"] /\ OtherwiseIncluded(n)
           => n.path \in ListedPaths
    /\ \A n \in archive :
         n.isDir /\ Count(n.path, "/") + 1 > c["depth"] /\ OtherwiseIncluded(n)
           => \A m \in Beneath(n) : m.path \notin Range(visited)
    /\ (/\ archive = ArchiveABC
        /\ ~c["dirs-only"] /\ c["pattern"] = <<>> /\ c["ipattern"] = <<>>)
         => (/\ <<"a">> \in ListedPaths
             /\ (<<"a", "/", "b">> \in ListedPaths) = (c["depth"] >= 2)
             /\ (<<"a", "/", "b", "/", "c">> \in ListedPaths) = (c["depth"] >= 3)
             /\ c["depth"] = 1 => <<"a", "/", "b", "/", "c">> \notin Range(visited))

C5_Witness ==
  /\ Listing /\ c["depth"] = 1 /\ archive = ArchiveABC
  /\ ~c["dirs-only"] /\ c["pattern"] = <<>> /\ c["ipattern"] = <<>>
  /\ <<"a", "/", "b">> \in Range(visited)
  /\ <<"a", "/", "b", "/", "c">> \notin Range(visited)
  /\ <<"a">> \in ListedPaths

\* C6: with a pattern set a non-directory is listed only if its base name
\* matches; with match-dirs unset no directory is dropped by pattern or
\* ipattern; a directory these filters drop is still descended into.
C6_PatternSparesDirs ==
  Listing =>
    /\ c["pattern"] # <<>> =>
         \A n \in archive :
           ~n.isDir /\ n.path \in ListedPaths => Match(c["pattern"], Base(n.path))
    /\ ~c["match-dirs"] /\ c["depth"] = 0 =>
         \A n \in archive : n.isDir => n.path \in ListedPaths
    /\ \A n \in archive :
         n.isDir /\ n.path \in Range(visited) /\ walkFn(c, n) = "nil"
           => \A m \in archive : Parent(m.path) = n.path => m.path \in Range(visited)

\* C7: in the text and JSON listings no entry whose base name begins with
\* '.' is written unless all is set (the walk's root "." aside).
C7_HiddenNeedAll ==
  Listing /\ ~c["all"] =>
    \A k \in 1..Len(out) :
      ~(HasPrefix(files[k].info.name, <<".">>) /\ files[k].info.name # RootPath)

\* C8: when the tree renderer is selected with sort key atime or extension
\* the command returns the unsupported-combination error and writes nothing;
\* with any other key the tree renderer draws and returns no error.
C8_TreeRefusesAtimeExtension ==
  pc = "done" =>
    /\ ~c["json"] /\ c["tree"] /\ err # "walk error" => renderer = "tree"
    /\ renderer = "tree" /\ c["sort"] = "atime" =>
         err = "atime sort is unsupported when using --tree" /\ out = <<>>
    /\ renderer = "tree" /\ c["sort"] = "extension" =>
         err = "extension sort is unsupported when using --tree" /\ out = <<>>
    /\ renderer = "tree" /\ c["sort"] \notin {"atime", "extension"} =>
         err = "" /\ out = << [tree |-> treeOptions(c)] >>

C8_Witness ==
  /\ pc = "done" /\ renderer = "tree" /\ c["sort"] = "extension"
  /\ err = "extension sort is unsupported when using --tree"
  /\ out = <<>> /\ Len(files) > 1

\* The name an archive member is listed under: its path, a directory with a
\* trailing '/'.
MemberName(n) == IF n.isDir THEN n.path \o <<"/">> ELSE n.path

ArchiveAB ==
  { Node(<<"a">>, TRUE, 0, 1), Node(<<"a", "/", "x", ".", "t", "x", "t">>, FALSE, 3, 2), Node(<<"b", ".", "l", "o", "g">>, FALSE, 5, 3) }

\* C9: with sort key name and no filter, dirs-first or reverse, the listing is
\* exactly the archive's members, each once, in strict ascending order of
\* name: a/, a/x.txt, b.log gives ["a/", "a/x.txt", "b.log"].
C9_ExactlyTheMembers ==
  /\ Listing /\ NoFilters /\ c["sort"] = "name" /\ ~c["ignore-case"]
  /\ ~c["dirs-first"] /\ ~c["reverse"] /\ ~c["full-path"] /\ ~c["quotes"]
  =>
    /\ Range(OutNames) = {MemberName(n) : n \in archive}
    /\ Len(OutNames) = Cardinality(archive)
    /\ \A i, j \in 1..Len(OutNames) : i < j => StrLess(OutNames[i], OutNames[j])
    /\ archive = ArchiveAB => OutNames = << <<"a", "/">>, <<"a", "/", "x", ".", "t", "x", "t">>, <<"b", ".", "l", "o", "g">> >>

(***************************************************************************)
(* Claims about formatBytes, checked under SpecFmt.                        *)
(***************************************************************************)
\* The printed text without its unit letter.
NumberPart(t) ==
  IF Len(t) > 0 /\ t[Len(t)] \in Range(Units) THEN SubSeq(t, 1, Len(t) - 1) ELSE t

UnitPart(t) == SubSeq(t, Len(NumberPart(t)) + 1, Len(t))

HasDecimal(t) == Contains(NumberPart(t), ".")

\* The printed number in tenths.
PrintedTenths(t) ==
  LET parts == Split(NumberPart(t), ".")
  IN 10 * DigitsValue(parts[1]) + (IF Len(parts) > 1 THEN DigitsValue(parts[2]) ELSE 0)

WellFormedNumber(t) ==
  LET parts == Split(NumberPart(t), ".")
  IN /\ Len(parts) \in {1, 2}
     /\ Len(parts[1]) > 0 /\ \A k \in 1..Len(parts[1]) : IsDigit(parts[1][k])
     /\ Len(parts) = 2 => Len(parts[2]) = 1 /\ IsDigit(parts[2][1])

FormatExamples ==
  /\ nbytes = SizeWith(1, 999, 0, 0) => text = <<"9", "9", "9">>
  /\ nbytes = SizeWith(2, 1, 0, 0) => text = <<"1", ".", "0", "K">>
  /\ nbytes = SizeWith(2, 10, 0, 0) => text = <<"1", "0", "K">>
  /\ nbytes = SizeWith(4, 1, 0, 0) => text = <<"1", ".", "0", "G">>

\* C10 as stated: below 1024 the number unscaled; otherwise the largest unit
\* in which the value is at least 1, one decimal when the scaled value is
\* below 10 and none otherwise, so the printed number is at least 1 and below
\* 1024 and a printed one-decimal number is below 10.
C10_PrintedBelow1024 ==
  pc = "formatted" =>
    LET top == TopIndex(nbytes)
    IN /\ WellFormedNumber(text)
       /\ top = 1 => text = Decimal(nbytes[1])
       /\ top > 1 =>
            /\ UnitPart(text) = <<Units[top - 1]>>
            /\ HasDecimal(text) = (nbytes[top] < 10)
            /\ PrintedTenths(text) >= 10 /\ PrintedTenths(text) < 10 * Radix
            /\ HasDecimal(text) => PrintedTenths(text) < 100
       /\ FormatExamples

\* C10 amended: the number printed is the float64 scaled value rounded to
\* nearest, with one decimal when that value is below 10 and none otherwise,
\* so the printed number is at least 1 and at most 1024 and a printed
\* one-decimal number is at most 10.0 (10199 gives "10.0K", 1048575 "1024K").
C10_FormatBytes ==
  pc = "formatted" =>
    LET top == TopIndex(nbytes)
    IN /\ WellFormedNumber(text)
       /\ top = 1 => text = Decimal(nbytes[1])
       /\ top > 1 =>
            /\ UnitPart(text) = <<Units[top - 1]>>
            /\ HasDecimal(text) = (toFloat64(nbytes)[top] < 10)
            /\ PrintedTenths(text) >= 10 /\ PrintedTenths(text) <= 10 * Radix
            /\ HasDecimal(text) => PrintedTenths(text) <= 100
            /\ ~HasDecimal(text) =>
                 PrintedTenths(text) \in {10 * nbytes[top], 10 * (nbytes[top] + 1)}
            /\ HasDecimal(text) =>
                 /\ PrintedTenths(text) >= 10 * nbytes[top]
                 /\ PrintedTenths(text) <= 10 * (nbytes[top] + 1)
       /\ FormatExamples
       /\ nbytes = SizeWith(2, 9, 983, 0) => text = <<"1", "0", ".", "0", "K">>
       /\ nbytes = SizeWith(2, 1023, 1023, 1023) => text = <<"1", "0", "2", "4", "K">>

C10_Witness ==
  /\ pc = "formatted"
  /\ nbytes = SizeWith(2, 9, 983, 0)
  /\ text = <<"1", "0", ".", "0", "K">>

(***************************************************************************)
(* Claims about the ctime, atime and version keys, checked under SpecSort. *)
(***************************************************************************)
Exposes(cmd, e) == PrimaryKey(cmd, e) # <<>>

SamePermutation(s, t) ==
  Len(s) = Len(t) /\ \A e \in Range(s) \cup Range(t) :
    Cardinality({k \in 1..Len(s) : s[k] = e}) = Cardinality({k \in 1..Len(t) : t[k] = e})

\* C11: with sort key ctime or atime, for any mix of entries that do and do
\* not expose the timestamp, the entries that expose it are in ascending
\* timestamp order in the result, an entry that lacks it compares as equal
\* only to entries that lack it too, and the sort fails on no input (the
\* result is the enumerated entries, rearranged).
C11_TimestampOrder ==
  pc = "sorted" /\ c["sort"] \in {"ctime", "atime"}
                /\ ~c["reverse"] /\ ~c["dirs-first"] =>
    /\ \A i, j \in 1..Len(files) :
         i < j /\ Exposes(c, files[i]) /\ Exposes(c, files[j])
           => PrimaryKey(c, files[i])[1] <= PrimaryKey(c, files[j])[1]
    /\ \A x, y \in Range(files) :
         ~Exposes(c, x) /\ Exposes(c, y)
           => lessPrimary(c, x, y) \/ lessPrimary(c, y, x)
    /\ SamePermutation(files, enumerated)

Token(e) == extractVersion(e.name)

\* Equal under the version comparator: neither token orders before the other.
TokensEqual(x, y) ==
  ~compareVersions(Token(x), Token(y)) /\ ~compareVersions(Token(y), Token(x))

\* C12: with sort key version, the entries are in ascending order of their
\* version tokens under the version comparator, and two entries whose tokens
\* are equal under that comparator (1.0 and 1.00 included), or that both have
\* no token, are in order of their full names.
C12_VersionThenName ==
  pc = "sorted" /\ c["sort"] = "version" /\ ~c["reverse"] /\ ~c["dirs-first"] =>
    \A i, j \in 1..Len(files) :
      i < j =>
        /\ ~compareVersions(Token(files[j]), Token(files[i]))
        /\ TokensEqual(files[i], files[j]) => StrLess(files[i].name, files[j].name)

(***************************************************************************)
(* SpecDisplay: inspect runs that vary the display options quotes and      *)
(* full-path under every sort key, with and without filters.               *)
(***************************************************************************)
\* An archive of versioned names.
ArchiveVersions ==
  { Node(<<"p", "-", "1", ".", "1", "0">>, FALSE, 1, 1),
    Node(<<"p", "-", "1", ".", "2">>, FALSE, 2, 2) }

DisplayArchives == Archives \cup {ArchiveVersions}

DisplayRuns ==
  {MakeFlags(k, FALSE, df, FALSE, FALSE, fp, FALSE, j, t, dp, pat, <<>>, FALSE, q) :
     k \in SortKeys, df \in BOOLEAN, fp \in BOOLEAN, j \in BOOLEAN, t \in BOOLEAN,
     dp \in {0, 1}, pat \in {<<>>, <<"*", ".", "t", "x", "t">>}, q \in BOOLEAN}

InitDisplay ==
  /\ c \in DisplayRuns
  /\ archive \in DisplayArchives
  /\ pc = "walk"
  /\ pending = <<RootPath>>
  /\ visited = <<>>
  /\ files = <<>> /\ enumerated = <<>>
  /\ renderer = "" /\ out = <<>> /\ err = ""
  /\ v1 = NoToken /\ v2 = NoToken /\ lt = FALSE /\ gt = FALSE
  /\ nbytes = NoSize /\ text = <<>>
  /\ dst = NoPath /\ created = <<>>

SpecDisplay == InitDisplay /\ [][Next]_vars

\* The entries the walk of an archive appends, in the order it appends them.
RECURSIVE walkFrom(_, _, _, _)
walkFrom(cmd, arch, pend, acc) ==
  IF pend = <<>> THEN acc
  ELSE LET node == NodeAt(arch, Head(pend))
           r == walkFn(cmd, node)
       IN walkFrom(cmd, arch,
                   IF r = "SkipDir" THEN Tail(pend) ELSE descend(arch, node, Tail(pend)),
                   IF r = "append"
                   THEN Append(acc, [name |-> entryName(cmd, node), info |-> Info(node)])
                   ELSE acc)

\* What inspect lists for an archive: the walk's entries after sortFiles.
inspectListing(cmd, arch) == sortFiles(cmd, walkFrom(cmd, arch, <<RootPath>>, <<>>))

\* The entries behind a listing, whatever their names are written as.
Entries(fs) == [k \in 1..Len(fs) |-> fs[k].info]

WithDisplay(cmd, fp, q) == WithFlag(WithFlag(cmd, "full-path", fp), "quotes", q)

\* C13: quotes and full-path change neither which entries inspect lists nor
\* their order: a run lists the same entries in the same order as the run
\* on the same archive with the same sort key and filters and any other
\* setting of quotes and full-path.
C13_DisplayOnly ==
  Listing =>
    \A fp, q \in BOOLEAN :
      Entries(inspectListing(WithDisplay(c, fp, q), archive)) = Entries(files)

(***************************************************************************)
(* SpecExtract: extractToDirectory, one handler call per archive entry.    *)
(***************************************************************************)
MaxEntries == 2    \* most entries of an extracted archive

\* filepath.Dir: the path up to its last separator, cleaned.
Dir(path) ==
  LET seps == {k \in 1..Len(path) : path[k] = "/"}
  IN IF seps = {} THEN <<".">>
     ELSE Clean(SubSeq(path, 1, CHOOSE k \in seps : \A m \in seps : m <= k))

\* The handler's path for an entry: the name, its base under flatten, joined
\* to the output directory.
targetPath(cmd, out_dir, name) ==
  filepathJoin(out_dir, IF cmd["flatten"] THEN Base(name) ELSE name)

\* NameInArchive values an archive can hold, directories marked.
ArchiveEntry(name, isDir) == [name |-> name, isDir |-> isDir]

EntryPool ==
  { ArchiveEntry(<<"a">>, TRUE),
    ArchiveEntry(<<"a", "/", "b">>, FALSE),
    ArchiveEntry(<<"b">>, FALSE),
    ArchiveEntry(<<"/", "a">>, FALSE),
    ArchiveEntry(<<"a", "/", ".", "/", "b">>, FALSE),
    ArchiveEntry(<<".", ".", "/", "e">>, FALSE),
    ArchiveEntry(<<"a", "/", ".", ".", "/", ".", ".", "/", "e">>, TRUE),
    ArchiveEntry(<<".", ".">>, TRUE) }

ExtractArchives ==
  UNION {{s \in [1..n -> EntryPool] : \A i, j \in 1..n : i # j => s[i].name # s[j].name} :
         n \in 0..MaxEntries}

OutputDirs == { <<"o", "u", "t">>, <<"/", "t", "/", "o">> }

ExtractFlags == {[flatten |-> f] : f \in BOOLEAN}

InitExtract ==
  /\ c \in ExtractFlags
  /\ dst \in OutputDirs
  /\ pending \in ExtractArchives
  /\ archive = Range(pending)
  /\ created = <<>>
  /\ pc = "extract"
  /\ err = ""
  /\ files = <<>> /\ enumerated = <<>> /\ visited = <<>>
  /\ renderer = "" /\ out = <<>>
  /\ v1 = NoToken /\ v2 = NoToken /\ lt = FALSE /\ gt = FALSE
  /\ nbytes = NoSize /\ text = <<>>

Extracting == pc = "extract" /\ pending # <<>>

Call(op, path, name) == [op |-> op, path |-> path, name |-> name]

\* A directory entry: os.MkdirAll(path).
ExtractDir ==
  /\ Extracting
  /\ Head(pending).isDir
  /\ created' = Append(created,
                  Call("MkdirAll", targetPath(c, dst, Head(pending).name), Head(pending).name))
  /\ pending' = Tail(pending)
  /\ UNCHANGED <<c, pc, files, enumerated, archive, visited, renderer, out, err,
                 verVars, fmtVars, dst>>

\* Any other entry: os.MkdirAll(filepath.Dir(path)), then os.Create(path).
ExtractFile ==
  /\ Extracting
  /\ ~Head(pending).isDir
  /\ LET name == Head(pending).name
         path == targetPath(c, dst, name)
     IN created' = created \o << Call("MkdirAll", Dir(path), name),
                                 Call("Create", path, name) >>
  /\ pending' = Tail(pending)
  /\ UNCHANGED <<c, pc, files, enumerated, archive, visited, renderer, out, err,
                 verVars, fmtVars, dst>>

\* A call of the handler fails (MkdirAll, Open, Create or Copy): Extract
\* returns the error and no further entry is handled.
ExtractError ==
  /\ Extracting
  /\ err' = "extract error"
  /\ pc' = "done"
  /\ UNCHANGED <<c, files, enumerated, archive, pending, visited, renderer, out, verVars, fmtVars, extVars>>

\* Every entry was handled: Extract returns nil.
ExtractFinished ==
  /\ pc = "extract" /\ pending = <<>>
  /\ pc' = "done"
  /\ UNCHANGED <<c, files, enumerated, archive, pending, visited, renderer, out, err,
                 verVars, fmtVars, extVars>>

NextExtract ==
  \/ ExtractDir
  \/ ExtractFile
  \/ ExtractError
  \/ ExtractFinished

SpecExtract == InitExtract /\ [][NextExtract]_vars

\* A path inside a directory: the directory itself or a path beneath it.
Inside(dir, path) ==
  LET d == Clean(dir)
      q == Clean(path)
  IN q = d \/ HasPrefix(q, IF d = <<"/">> THEN d ELSE d \o <<"/">>)

\* The calls that write an entry itself (not the parent of a file).
Written == {k \in 1..Len(created) : created[k].path = targetPath(c, dst, created[k].name)
                                    /\ created[k].op \in {"MkdirAll", "Create"}
                                    /\ (created[k].op = "MkdirAll" =>
                                          \E e \in archive : e.name = created[k].name /\ e.isDir)}

\* C14: during extract, for every entry name the archive supplies (names
\* with ".." segments or a leading "/" included) and either setting of
\* flatten, every file or directory the handler creates lies inside the
\* output directory, and with flatten unset two entries with distinct names
\* are never written to the same path.
C14_ExtractConfined ==
  /\ \A k \in 1..Len(created) : Inside(dst, created[k].path)
  /\ ~c["flatten"] =>
       \A k, m \in Written :
         created[k].name # created[m].name => created[k].path # created[m].path

====
